---------------------------- MODULE Spec2Model ----------------------------
(***************************************************************************)
(* Model of the lexical validation engine of dictionary-checker:           *)
(*   src/src/dictionary_checker.py   DictionaryChecker                     *)
(*   src/src/hyphenated_handler.py   HyphenatedWordHandler                 *)
(*   src/src/stemmer.py              TokenStemmer                          *)
(*                                                                         *)
(* A Python string is a sequence of one-character strings, so that         *)
(* str.lower, str.isalpha, str.replace, str.split, startswith/endswith     *)
(* are computed character by character as Python computes them.            *)
(***************************************************************************)
EXTENDS Integers, Sequences, FiniteSets, TLC

(***************************************************************************)
(* Bounds of the model.                                                    *)
(***************************************************************************)
\* largest number of hyphen-separated parts of a token
MaxParts == 2
\* longest token stream handed to check_tokens / analyze_tokens
MaxStream == 3
\* number of top-level calls made on one checker
MaxCalls == 2

\* len(part) < 2: the shortest alphabetic component that is not an OCR error
MinComponentLen == 2

(***************************************************************************)
(* Characters and strings.                                                 *)
(***************************************************************************)
LowerLetters == {"a", "s"}
UpperLetters == {"A"}
Hyphen == "-"
Digits == {"1"}
Chars == LowerLetters \cup UpperLetters \cup {Hyphen} \cup Digits

\* all strings over alphabet S of length at most n
UpTo(S, n) == UNION {[1..k -> S] : k \in 0..n}

\* str.lower(), one character
LowerCh(c) == IF c = "A" THEN "a" ELSE c
\* str.lower()
Lower(w) == [i \in 1..Len(w) |-> LowerCh(w[i])]
\* str.isalpha(), one character
IsAlphaCh(c) == c \in LowerLetters \cup UpperLetters
\* str.isalpha(): false for the empty string
IsAlpha(w) == Len(w) > 0 /\ \A i \in 1..Len(w) : IsAlphaCh(w[i])
\* '-' in word
HasHyphen(w) == \E i \in 1..Len(w) : w[i] = Hyphen
\* word.startswith('-')
StartsWithHyphen(w) == Len(w) > 0 /\ w[1] = Hyphen
\* word.endswith('-')
EndsWithHyphen(w) == Len(w) > 0 /\ w[Len(w)] = Hyphen
NotHyphen(c) == c # Hyphen
\* word.replace('-', '')
Dehyphenate(w) == SelectSeq(w, NotHyphen)

RECURSIVE SplitFrom(_, _, _)
\* word.split('-') from position i on, cur being the part read so far
SplitFrom(w, i, cur) ==
    IF i > Len(w) THEN <<cur>>
    ELSE IF w[i] = Hyphen THEN <<cur>> \o SplitFrom(w, i + 1, <<>>)
    ELSE SplitFrom(w, i + 1, Append(cur, w[i]))

\* word.split('-'): empty parts are kept
Split(w) == SplitFrom(w, 1, <<>>)
NonEmpty(p) == p # <<>>
\* [part.strip() for part in word.split('-') if part.strip()]
\* (no character of the alphabet is whitespace, so strip() changes nothing)
SplitComponents(w) == SelectSeq(Split(w), NonEmpty)
\* [p for p in components if p.isalpha()]
AlphabeticComponents(comps) == SelectSeq(comps, IsAlpha)
\* x in list
InList(x, l) == \E i \in 1..Len(l) : l[i] = x

(***************************************************************************)
(* TokenStemmer.                                                           *)
(***************************************************************************)
None == "None"
Methods == {"porter", "snowball", "lemmatize"}
\* stem_method: str = 'snowball'
DefaultMethod == "snowball"

\* words the WordNet lemmatizer knows as nouns
WordNetNouns == {<<"a">>, <<"a", "a">>}

\* the suffix rule of the Porter/Snowball stemmers on a lower-cased word:
\* words of at most two letters are left alone, -ss is kept, a final -s is
\* dropped
SuffixStem(w) ==
    IF Len(w) <= 2 THEN w
    ELSE IF w[Len(w)] = "s" /\ w[Len(w) - 1] # "s" THEN SubSeq(w, 1, Len(w) - 1)
    ELSE w

\* WordNetLemmatizer.lemmatize(w): the noun base form when WordNet has it,
\* else the word itself
Lemmatize(w) ==
    IF w \in WordNetNouns THEN w
    ELSE IF Len(w) > 1 /\ w[Len(w)] = "s" /\ SubSeq(w, 1, Len(w) - 1) \in WordNetNouns
         THEN SubSeq(w, 1, Len(w) - 1)
    ELSE w

\* re.match(r'^[a-zA-Z]+$', token): letters only, at least one; `$` matches
\* at the end and also before a newline that ends the token
MatchesLetters(token) ==
    \/ IsAlpha(token)
    \/ /\ Len(token) > 1
       /\ token[Len(token)] = "\n"
       /\ IsAlpha(SubSeq(token, 1, Len(token) - 1))

\* variant of stem_token without the test of line 81: every token is stemmed
stem_token_NoPattern(method, token) ==
    IF method \in {"porter", "snowball"} THEN SuffixStem(Lower(token))
    ELSE IF method = "lemmatize" THEN Lemmatize(Lower(token))
    ELSE Lower(token)

\* TokenStemmer.stem_token(token) of a stemmer built with `method`
stem_token(method, token) ==
    IF ~MatchesLetters(token) THEN Lower(token)
    ELSE IF method \in {"porter", "snowball"} THEN SuffixStem(Lower(token))
    ELSE IF method = "lemmatize" THEN Lemmatize(Lower(token))
    ELSE Lower(token)

(***************************************************************************)
(* DictionaryChecker and HyphenatedWordHandler as functions on the object: *)
(* each takes the checker `self` and returns the checker after the call    *)
(* together with the returned value.  `log` lists, in call order, the      *)
(* calls made while the value was computed.                                *)
(***************************************************************************)
\* the SQLite table `entries` the checker reads: a set of words
VARIABLE entries
\* the DictionaryChecker object (its fields)
VARIABLE self
\* the last top-level call: operation, arguments, returned value
VARIABLE ret
\* number of top-level calls made so far
VARIABLE ncalls

vars == <<entries, self, ret, ncalls>>

\* self._hyphenated_handler = None
NoHandler == [created |-> FALSE, stemmer |-> None]

\* self.stem_match_stats[key] += 1
Bump(s, key) == [s EXCEPT !.stem_match_stats[key] = @ + 1]

\* SELECT DISTINCT LOWER(word) FROM entries
LoadWords(db) == {Lower(w) : w \in db}

\* variant of _initialize_cache without the test of line 43: every call
\* reads the table again
_initialize_cache_Reload(s, db) ==
    [s EXCEPT !.word_cache = LoadWords(db), !.cache_initialized = TRUE]

\* DictionaryChecker._initialize_cache (the connection is open)
_initialize_cache(s, db) ==
    IF s.cache_initialized THEN s
    ELSE [s EXCEPT !.word_cache = LoadWords(db), !.cache_initialized = TRUE]

\* DictionaryChecker.get_dictionary_size()
get_dictionary_size(s, db) ==
    [self |-> _initialize_cache(s, db),
     value |-> Cardinality(_initialize_cache(s, db).word_cache)]

\* one entry of the call log
Event(kind, strategy, word, allow) ==
    [kind |-> kind, strategy |-> strategy, word |-> word, allow_hyphenated |-> allow]

\* f'hyphenated_{match_type}'
HyphenatedType(mt) ==
    CASE mt = "whole" -> "hyphenated_whole"
      [] mt = "dehyphenated" -> "hyphenated_dehyphenated"
      [] mt = "components" -> "hyphenated_components"
      [] mt = "stem_components" -> "hyphenated_stem_components"
      [] OTHER -> "hyphenated_none"

NoReason == "no_reason"

\* details = {'original': word, 'components': [], 'valid_components': [],
\*            'invalid_components': []}; absent keys are NoReason / <<>>
NewDetails(word) ==
    [original |-> word, components |-> <<>>, valid_components |-> <<>>,
     invalid_components |-> <<>>, stem_components |-> <<>>,
     dehyphenated |-> <<>>, reason |-> NoReason]

\* lines 75-83: the handler is created on the first hyphenated lookup
LazyHandler(s) ==
    IF ~s.hyphenated_handler.created
    THEN [s EXCEPT !.hyphenated_handler = [created |-> TRUE, stemmer |-> s.stemmer]]
    ELSE s

\* variant of lines 159-167: the handler analyze_tokens creates gets no stemmer
LazyHandlerAnalyze_NoStemmer(s) ==
    IF ~s.hyphenated_handler.created
    THEN [s EXCEPT !.hyphenated_handler = [created |-> TRUE, stemmer |-> None]]
    ELSE s

\* lines 159-167: the same lazy creation, in analyze_tokens
LazyHandlerAnalyze(s) ==
    IF ~s.hyphenated_handler.created
    THEN [s EXCEPT !.hyphenated_handler = [created |-> TRUE, stemmer |-> s.stemmer]]
    ELSE s

\* variant of line 48: the dehyphenated form is never looked up
TryDehyphenated_Never(dehyphenated) == FALSE

\* line 48: dehyphenated and dehyphenated.isalpha()
TryDehyphenated(dehyphenated) == dehyphenated # <<>> /\ IsAlpha(dehyphenated)

\* variant of line 60: only a leading hyphen counts
EdgeHyphen_StartOnly(word) == StartsWithHyphen(word)

\* line 60: word.startswith('-') or word.endswith('-')
EdgeHyphen(word) == StartsWithHyphen(word) \/ EndsWithHyphen(word)

\* variant of line 65: components of two letters are short too
ShortComponent_TwoLetters(components) ==
    \E i \in 1..Len(components) :
        IsAlpha(components[i]) /\ Len(components[i]) <= MinComponentLen

\* variant of line 65: no component is short
ShortComponent_Never(components) == FALSE

\* line 65: any(len(part) < 2 for part in components if part.isalpha())
ShortComponent(components) ==
    \E i \in 1..Len(components) :
        IsAlpha(components[i]) /\ Len(components[i]) < MinComponentLen

RECURSIVE is_in_dictionary(_, _, _, _, _)
RECURSIVE is_valid_hyphenated_word(_, _, _, _)
RECURSIVE Strategy1(_, _, _, _)
RECURSIVE Strategy2(_, _, _, _, _)
RECURSIVE Strategy3(_, _, _, _, _)
RECURSIVE Strategy4(_, _, _, _, _)
RECURSIVE CheckComponents(_, _, _, _, _, _, _)
RECURSIVE CheckStemComponents(_, _, _, _, _, _, _, _)
RECURSIVE AnalyzeLoop(_, _, _, _, _)
RECURSIVE AnalyzeStem(_, _, _, _, _)
RECURSIVE CheckLoop(_, _, _, _, _)

\* variant of lines 90-106 without the stem step of lines 97-103
PlainLookup_NoStem(s, word, case_sensitive) ==
    LET check_word == IF case_sensitive THEN word ELSE Lower(word)
    IN  IF check_word \in s.word_cache
        THEN [self |-> Bump(s, "original_matches"), found |-> TRUE,
              match_type |-> "original"]
        ELSE [self |-> Bump(s, "no_matches"), found |-> FALSE,
              match_type |-> "none"]

\* lines 90-106 of is_in_dictionary: the plain lookup and the stem fallback
PlainLookup(s, word, case_sensitive) ==
    LET check_word == IF case_sensitive THEN word ELSE Lower(word)
        stem_form == stem_token(s.stemmer, word)
        stem_check == IF case_sensitive THEN stem_form ELSE Lower(stem_form)
    IN  IF check_word \in s.word_cache
        THEN [self |-> Bump(s, "original_matches"), found |-> TRUE,
              match_type |-> "original"]
        ELSE IF s.use_stemming /\ s.stemmer # None
                /\ stem_check # check_word /\ stem_check \in s.word_cache
        THEN [self |-> Bump(s, "stem_matches"), found |-> TRUE,
              match_type |-> "stem"]
        ELSE [self |-> Bump(s, "no_matches"), found |-> FALSE,
              match_type |-> "none"]

\* the result p of the plain lookup, returned by a call whose log is log
PlainResult(p, log) ==
    [self |-> p.self, found |-> p.found, match_type |-> p.match_type, log |-> log]

\* lines 85-88 and on: h is what the handler returned for word
HyphenatedResult(h, word, case_sensitive, log) ==
    IF h.is_valid
    THEN [self |-> Bump(h.self, "hyphenated_matches"), found |-> TRUE,
          match_type |-> HyphenatedType(h.match_type), log |-> log \o h.log]
    ELSE PlainResult(PlainLookup(h.self, word, case_sensitive), log \o h.log)

\* lines 73-106, the cache being loaded in s
Lookup(s, db, word, case_sensitive, allow_hyphenated) ==
    IF allow_hyphenated /\ s.handle_hyphenated /\ HasHyphen(word)
    THEN HyphenatedResult(
             is_valid_hyphenated_word(LazyHandler(s), db,
                 LazyHandler(s).hyphenated_handler.stemmer, word),
             word, case_sensitive,
             <<Event("is_in_dictionary", "", word, allow_hyphenated)>>)
    ELSE PlainResult(PlainLookup(s, word, case_sensitive),
                     <<Event("is_in_dictionary", "", word, allow_hyphenated)>>)

\* DictionaryChecker.is_in_dictionary(word, case_sensitive, allow_hyphenated)
is_in_dictionary(s0, db, word, case_sensitive, allow_hyphenated) ==
    Lookup(_initialize_cache(s0, db), db, word, case_sensitive, allow_hyphenated)

\* what is_valid_hyphenated_word returns
Verdict(s, is_valid, match_type, details, log) ==
    [self |-> s, is_valid |-> is_valid, match_type |-> match_type,
     details |-> details, log |-> log]

\* HyphenatedWordHandler.is_valid_hyphenated_word(word), the handler holding
\* the checker s and the stemmer hstemmer
is_valid_hyphenated_word(s, db, hstemmer, word) ==
    IF ~HasHyphen(word)
    THEN Verdict(s, FALSE, "none",
                 [NewDetails(word) EXCEPT !.reason = "not_hyphenated"],
                 <<Event("is_valid_hyphenated_word", "", word, FALSE)>>)
    ELSE Strategy1(is_in_dictionary(s, db, word, FALSE, FALSE), db, hstemmer, word)

\* Strategy 1 (lines 41-44): whole is the lookup of the word as it is
Strategy1(whole, db, hstemmer, word) ==
    LET log == <<Event("is_valid_hyphenated_word", "", word, FALSE),
                 Event("lookup", "whole", word, FALSE)>> \o whole.log
    IN  IF whole.found
        THEN Verdict(whole.self, TRUE, "whole", NewDetails(word), log)
        ELSE IF TryDehyphenated(Dehyphenate(word))
        THEN Strategy2(is_in_dictionary(whole.self, db, Dehyphenate(word),
                                        FALSE, FALSE),
                       db, hstemmer, word, log)
        ELSE Strategy3(whole.self, db, hstemmer, word, log)

\* Strategy 2 (lines 46-52): dehyph is the lookup of the word without hyphens
Strategy2(dehyph, db, hstemmer, word, log1) ==
    LET dehyphenated == Dehyphenate(word)
        log == log1 \o <<Event("lookup", "dehyphenated", dehyphenated, FALSE)>>
                    \o dehyph.log
    IN  IF dehyph.found
        THEN Verdict(dehyph.self, TRUE, "dehyphenated",
                     [NewDetails(word) EXCEPT !.dehyphenated = dehyphenated], log)
        ELSE Strategy3(dehyph.self, db, hstemmer, word, log)

\* lines 71-78: r is the lookup of components[i]
ComponentChecked(r, db, comps, i, valid, invalid, log) ==
    IF r.found
    THEN CheckComponents(r.self, db, comps, i + 1, Append(valid, comps[i]),
                         invalid, log \o r.log)
    ELSE CheckComponents(r.self, db, comps, i + 1, valid,
                         Append(invalid, comps[i]), log \o r.log)

\* variant of line 73 without allow_hyphenated=False: the lookup of a
\* component is made with the default allow_hyphenated=True
CheckComponents_AllowHyphenated(s, db, comps, i, valid, invalid, log) ==
    IF i > Len(comps)
    THEN [self |-> s, valid |-> valid, invalid |-> invalid, log |-> log]
    ELSE IF IsAlpha(comps[i])
    THEN ComponentChecked(is_in_dictionary(s, db, comps[i], FALSE, TRUE),
             db, comps, i, valid, invalid,
             log \o <<Event("lookup", "components", comps[i], FALSE)>>)
    ELSE CheckComponents(s, db, comps, i + 1, valid, invalid, log)

\* the loop of lines 70-78 over components[i..]
CheckComponents(s, db, comps, i, valid, invalid, log) ==
    IF i > Len(comps)
    THEN [self |-> s, valid |-> valid, invalid |-> invalid, log |-> log]
    ELSE IF IsAlpha(comps[i])
    THEN ComponentChecked(is_in_dictionary(s, db, comps[i], FALSE, FALSE),
             db, comps, i, valid, invalid,
             log \o <<Event("lookup", "components", comps[i], FALSE)>>)
    ELSE CheckComponents(s, db, comps, i + 1, valid, invalid, log)

\* variant of lines 93-97: the stem counts whether it was found or not
StemChecked_AlwaysFound(r, db, hstemmer, alpha, i, valid, stems, log) ==
    CheckStemComponents(r.self, db, hstemmer, alpha, i + 1, valid,
        Append(stems, [original |-> alpha[i],
                       stem |-> stem_token(hstemmer, alpha[i])]),
        log \o r.log)

\* lines 93-97: r is the lookup of the stem of alphabetic_components[i]
StemChecked(r, db, hstemmer, alpha, i, valid, stems, log) ==
    IF r.found
    THEN CheckStemComponents(r.self, db, hstemmer, alpha, i + 1, valid,
             Append(stems, [original |-> alpha[i],
                            stem |-> stem_token(hstemmer, alpha[i])]),
             log \o r.log)
    ELSE CheckStemComponents(r.self, db, hstemmer, alpha, i + 1, valid, stems,
                             log \o r.log)

\* the loop of lines 91-97 over alphabetic_components[i..]
CheckStemComponents(s, db, hstemmer, alpha, i, valid, stems, log) ==
    IF i > Len(alpha)
    THEN [self |-> s, stems |-> stems, log |-> log]
    ELSE IF ~InList(alpha[i], valid)
    THEN StemChecked(
             is_in_dictionary(s, db, stem_token(hstemmer, alpha[i]), FALSE, FALSE),
             db, hstemmer, alpha, i, valid, stems,
             log \o <<Event("lookup", "stem_components",
                            stem_token(hstemmer, alpha[i]), FALSE)>>)
    ELSE CheckStemComponents(s, db, hstemmer, alpha, i + 1, valid, stems, log)

\* lines 54-67 and 69-78: the structural guards, then the component lookups
Strategy3(s, db, hstemmer, word, log) ==
    LET components == SplitComponents(word)
        details == [NewDetails(word) EXCEPT !.components = components]
    IN  IF EdgeHyphen(word)
        THEN Verdict(s, FALSE, "none",
                     [details EXCEPT !.reason = "edge_hyphen_likely_ocr_error"],
                     log)
        ELSE IF ShortComponent(components)
        THEN Verdict(s, FALSE, "none",
                     [details EXCEPT !.reason = "short_component_likely_ocr_error"],
                     log)
        ELSE Strategy4(CheckComponents(s, db, components, 1, <<>>, <<>>, log),
                       db, hstemmer, word, details)

\* the end of the stem loop (lines 99-103): sc is what the loop returned
StemVerdict(sc, valid_count, alphabetic_components, details) ==
    Verdict(sc.self,
            valid_count + Len(sc.stems) = Len(alphabetic_components),
            IF valid_count + Len(sc.stems) = Len(alphabetic_components)
            THEN "stem_components" ELSE "none",
            [details EXCEPT !.stem_components = sc.stems],
            sc.log)

\* lines 80-105: c is what the component loop returned
Strategy4(c, db, hstemmer, word, details3) ==
    LET alphabetic_components == AlphabeticComponents(SplitComponents(word))
        details == [details3 EXCEPT !.valid_components = c.valid,
                                    !.invalid_components = c.invalid]
        valid_count == Len(c.valid)
    IN  IF alphabetic_components # <<>>
           /\ valid_count = Len(alphabetic_components)
        THEN Verdict(c.self, TRUE, "components", details, c.log)
        ELSE IF hstemmer # None /\ alphabetic_components # <<>>
        THEN StemVerdict(
                 CheckStemComponents(c.self, db, hstemmer, alphabetic_components,
                                     1, c.valid, <<>>, c.log),
                 valid_count, alphabetic_components, details)
        ELSE Verdict(c.self, FALSE, "none", details, c.log)

\* the elements of a list
Range(l) == {l[i] : i \in 1..Len(l)}

\* n / d * 100 if d else 0, the integer part of the quotient
Percent(n, d) == IF d > 0 THEN (n * 100) \div d ELSE 0

\* variant of lines 190-193 without .lower(): the tokens as written
LowerSet_AsWritten(tokens) == {tokens[i] : i \in 1..Len(tokens)}

\* set(t.lower() for t in tokens)
LowerSet(tokens) == {Lower(tokens[i]) : i \in 1..Len(tokens)}

\* ord(c)
CodePoint(c) ==
    CASE c = "\n" -> 10 [] c = "'" -> 39 [] c = "-" -> 45 [] c = "." -> 46
      [] c = "1" -> 49 [] c = "A" -> 65 [] c = "a" -> 97 [] c = "s" -> 115

\* u < v for two strings: by the first character that differs, a proper
\* prefix first
StrLess(u, v) ==
    \E k \in 1..(Len(v)) :
        /\ \A j \in 1..(k - 1) : j <= Len(u) /\ u[j] = v[j]
        /\ \/ Len(u) = k - 1
           \/ Len(u) >= k /\ CodePoint(u[k]) < CodePoint(v[k])

\* the least string of a non-empty set
Least(S) == CHOOSE u \in S : \A v \in S \ {u} : StrLess(u, v)

RECURSIVE sorted(_)
\* sorted(S) of a set of strings
sorted(S) == IF S = {} THEN <<>> ELSE <<Least(S)>> \o sorted(S \ {Least(S)})

\* the accumulators of analyze_tokens before its loop (lines 140-146)
NoTokens ==
    [found_tokens |-> <<>>, stem_found_tokens |-> <<>>,
     hyphenated_found_tokens |-> <<>>, not_found_tokens |-> <<>>,
     match_details |-> <<>>, log |-> <<>>]

\* lines 170-173: h is what the handler returned for tokens[i]
AnalyzeHyphenated(h, db, tokens, i, acc) ==
    IF h.is_valid
    THEN AnalyzeLoop(h.self, db, tokens, i + 1,
             [acc EXCEPT !.hyphenated_found_tokens = Append(@, tokens[i]),
                         !.match_details = Append(@,
                             [token |-> tokens[i],
                              match_type |-> HyphenatedType(h.match_type)]),
                         !.log = @ \o h.log])
    ELSE AnalyzeStem(h.self, db, tokens, i, [acc EXCEPT !.log = @ \o h.log])

\* variant of lines 175-188: every token left is counted as found by its stem
AnalyzeStem_AlwaysStem(s, db, tokens, i, acc) ==
    AnalyzeLoop(s, db, tokens, i + 1,
        [acc EXCEPT !.stem_found_tokens = Append(@, tokens[i]),
                    !.match_details = Append(@,
                        [token |-> tokens[i], match_type |-> "stem"])])

\* lines 175-188: the stem form of tokens[i], then not found
AnalyzeStem(s, db, tokens, i, acc) ==
    LET token == tokens[i]
        token_lower == Lower(token)
        stem_form == stem_token(s.stemmer, token)
    IN  IF s.use_stemming /\ s.stemmer # None
           /\ stem_form # token_lower /\ stem_form \in s.word_cache
        THEN AnalyzeLoop(s, db, tokens, i + 1,
                 [acc EXCEPT !.stem_found_tokens = Append(@, token),
                             !.match_details = Append(@,
                                 [token |-> token, match_type |-> "stem"])])
        ELSE AnalyzeLoop(s, db, tokens, i + 1,
                 [acc EXCEPT !.not_found_tokens = Append(@, token)])

\* variant of the loop whose first test (line 152) takes the token as
\* written, not lower-cased
AnalyzeLoop_AsWritten(s, db, tokens, i, acc) ==
    IF i > Len(tokens) THEN [self |-> s, acc |-> acc]
    ELSE IF tokens[i] \in s.word_cache
    THEN AnalyzeLoop(s, db, tokens, i + 1,
             [acc EXCEPT !.found_tokens = Append(@, tokens[i]),
                         !.match_details = Append(@,
                             [token |-> tokens[i], match_type |-> "original"])])
    ELSE IF s.handle_hyphenated /\ HasHyphen(tokens[i])
    THEN AnalyzeHyphenated(
             is_valid_hyphenated_word(LazyHandlerAnalyze(s), db,
                 LazyHandlerAnalyze(s).hyphenated_handler.stemmer, tokens[i]),
             db, tokens, i, acc)
    ELSE AnalyzeStem(s, db, tokens, i, acc)

\* the loop of analyze_tokens (lines 148-188) over tokens[i..]
AnalyzeLoop(s, db, tokens, i, acc) ==
    IF i > Len(tokens) THEN [self |-> s, acc |-> acc]
    ELSE IF Lower(tokens[i]) \in s.word_cache
    THEN AnalyzeLoop(s, db, tokens, i + 1,
             [acc EXCEPT !.found_tokens = Append(@, tokens[i]),
                         !.match_details = Append(@,
                             [token |-> tokens[i], match_type |-> "original"])])
    ELSE IF s.handle_hyphenated /\ HasHyphen(tokens[i])
    THEN AnalyzeHyphenated(
             is_valid_hyphenated_word(LazyHandlerAnalyze(s), db,
                 LazyHandlerAnalyze(s).hyphenated_handler.stemmer, tokens[i]),
             db, tokens, i, acc)
    ELSE AnalyzeStem(s, db, tokens, i, acc)

\* variant of line 197: the hyphenated tokens are left out
AllFound_WithoutHyphenated(a) == a.found_tokens \o a.stem_found_tokens

\* line 197: the tokens found in any way
AllFound(a) ==
    a.found_tokens \o a.stem_found_tokens \o a.hyphenated_found_tokens

\* lines 190-231: the result built from what the loop r collected
AnalyzeResult(r, tokens) ==
    LET a == r.acc
        unique_found == LowerSet(a.found_tokens)
        unique_stem_found == LowerSet(a.stem_found_tokens)
        unique_hyphenated_found == LowerSet(a.hyphenated_found_tokens)
        unique_not_found == LowerSet(a.not_found_tokens)
        all_found == AllFound(a)
        unique_all_found == unique_found \cup unique_stem_found
                                \cup unique_hyphenated_found
    IN  [self |-> r.self,
         log |-> a.log,
         result |->
           [total_tokens |-> Len(tokens),
            found_count |-> Len(a.found_tokens),
            stem_found_count |-> Len(a.stem_found_tokens),
            hyphenated_found_count |-> Len(a.hyphenated_found_tokens),
            combined_found_count |-> Len(all_found),
            not_found_count |-> Len(a.not_found_tokens),
            unique_found |-> Cardinality(unique_found),
            unique_stem_found |-> Cardinality(unique_stem_found),
            unique_hyphenated_found |-> Cardinality(unique_hyphenated_found),
            unique_combined_found |-> Cardinality(unique_all_found),
            unique_not_found |-> Cardinality(unique_not_found),
            found_percentage |-> Percent(Len(a.found_tokens), Len(tokens)),
            combined_found_percentage |-> Percent(Len(all_found), Len(tokens)),
            stem_contribution |-> Percent(Len(a.stem_found_tokens), Len(tokens)),
            hyphenated_contribution |->
                Percent(Len(a.hyphenated_found_tokens), Len(tokens)),
            found_tokens |-> a.found_tokens,
            stem_found_tokens |-> a.stem_found_tokens,
            hyphenated_found_tokens |-> a.hyphenated_found_tokens,
            not_found_tokens |-> a.not_found_tokens,
            unique_found_list |-> sorted(unique_found),
            unique_stem_found_list |-> sorted(unique_stem_found),
            unique_hyphenated_found_list |-> sorted(unique_hyphenated_found),
            unique_not_found_list |-> sorted(unique_not_found),
            match_details |-> a.match_details,
            has_stemming_stats |-> r.self.use_stemming \/ r.self.handle_hyphenated,
            stemming_stats |-> r.self.stem_match_stats]]

\* DictionaryChecker.analyze_tokens(tokens)
analyze_tokens(s0, db, tokens) ==
    AnalyzeResult(AnalyzeLoop(_initialize_cache(s0, db), db, tokens, 1, NoTokens),
                  tokens)

\* lines 122-125: r is the lookup of the lower-cased tokens[i]
TokenChecked(r, db, tokens, i, results) ==
    CheckLoop(r.self, db, tokens, i + 1,
        [k \in DOMAIN results \cup {Lower(tokens[i])} |->
            IF k = Lower(tokens[i]) THEN r.found ELSE results[k]])

\* variant of the loop without the test of line 123: every token is looked up
CheckLoop_EveryToken(s, db, tokens, i, results) ==
    IF i > Len(tokens) THEN [self |-> s, results |-> results]
    ELSE TokenChecked(is_in_dictionary(s, db, Lower(tokens[i]), FALSE, TRUE),
                      db, tokens, i, results)

\* the loop of check_tokens (lines 120-125) over tokens[i..]; results is the
\* dict built so far, as a function on its keys
CheckLoop(s, db, tokens, i, results) ==
    IF i > Len(tokens) THEN [self |-> s, results |-> results]
    ELSE IF Lower(tokens[i]) \notin DOMAIN results
    THEN TokenChecked(is_in_dictionary(s, db, Lower(tokens[i]), FALSE, TRUE),
                      db, tokens, i, results)
    ELSE CheckLoop(s, db, tokens, i + 1, results)

\* DictionaryChecker.check_tokens(tokens)
check_tokens(s0, db, tokens) ==
    CheckLoop(_initialize_cache(s0, db), db, tokens, 1, [k \in {} |-> FALSE])

(***************************************************************************)
(* The state machine: a checker is constructed over a database, then its   *)
(* public methods are called in any order.                                 *)
(***************************************************************************)
\* words a database may hold: a letter, a capitalised word, its plural, and
\* the compound of the word and its plural, hyphenated and (in the singular)
\* written solid
Vocab ==
    { <<"a">>, <<"A", "a">>, <<"a", "a", "s">>, <<"a", "a", "a", "a">>,
      <<"a", "a", "-", "a", "a", "s">> }

\* the parts tokens are made of: nothing (a stray hyphen), a letter, a word in
\* two casings, its plural, a number
Parts ==
    { <<>>, <<"a">>, <<"a", "a">>, <<"A", "a">>, <<"a", "a", "s">>, <<"1">> }

RECURSIVE Join(_)
\* '-'.join(parts)
Join(ps) ==
    IF Len(ps) = 0 THEN <<>>
    ELSE IF Len(ps) = 1 THEN ps[1]
    ELSE ps[1] \o <<Hyphen>> \o Join(Tail(ps))

\* the tokens handed to the checker: up to MaxParts parts joined by hyphens
Tokens == {Join(ps) : ps \in UNION {[1..k -> Parts] : k \in 1..MaxParts}}

\* the tokens of streams and call histories: a capitalised word, a plural, a
\* compound and a number
SampleTokens ==
    { <<"A", "a">>, <<"a", "a", "s">>, <<"a", "a", "-", "a", "a", "s">>, <<"1">> }

\* the token streams of one file
Streams == UpTo(SampleTokens, MaxStream)

\* the streams earlier calls of a history were given
SampleStreams ==
    { <<>>, <<<<"a", "a", "-", "a", "a", "s">>>>,
      <<<<"A", "a">>, <<"a", "a", "s">>>> }

\* DictionaryChecker.__init__
NewChecker(use_stemming, stemmer, handle_hyphenated) ==
    [use_stemming |-> use_stemming, stemmer |-> stemmer,
     handle_hyphenated |-> handle_hyphenated,
     word_cache |-> {}, cache_initialized |-> FALSE,
     stem_match_stats |-> [original_matches |-> 0, stem_matches |-> 0,
                           hyphenated_matches |-> 0, no_matches |-> 0],
     hyphenated_handler |-> NoHandler,
     conn |-> "open"]

NoCall == [op |-> "none", raised |-> FALSE]

Init ==
    /\ entries \in SUBSET Vocab
    /\ \E u \in BOOLEAN, m \in {None, DefaultMethod}, h \in BOOLEAN :
          self = NewChecker(u, m, h)
    /\ ret = NoCall
    /\ ncalls = 0

\* sqlite3.connect creates the file of a path that does not exist: the
\* connection opens on a database without the table of words
NoTable == { <<"no such table: entries">> }

\* cursor.execute raises on a closed connection and on a database without
\* the table: the cache cannot be loaded
CanLoad(s) == s.cache_initialized \/ (s.conn = "open" /\ entries # NoTable)

Raise(op) ==
    /\ ret' = [op |-> op, raised |-> TRUE]
    /\ UNCHANGED <<entries, self>>

\* the call returns r: the checker is as the call left it, and ret holds the
\* call with its arguments and what it returned
Return(call, r) ==
    /\ self' = r.self
    /\ ret' = call @@ r
    /\ UNCHANGED entries

\* checker.get_dictionary_size()
GetDictionarySize ==
    /\ ncalls < MaxCalls
    /\ ncalls' = ncalls + 1
    /\ IF CanLoad(self)
       THEN Return([op |-> "get_dictionary_size", raised |-> FALSE, before |-> self],
                   get_dictionary_size(self, entries))
       ELSE Raise("get_dictionary_size")

\* checker.is_in_dictionary(word, case_sensitive, allow_hyphenated)
IsInDictionary(word, case_sensitive, allow_hyphenated) ==
    /\ ncalls < MaxCalls
    /\ ncalls' = ncalls + 1
    /\ IF CanLoad(self)
       THEN Return([op |-> "is_in_dictionary", raised |-> FALSE, before |-> self,
                    word |-> word, case_sensitive |-> case_sensitive,
                    allow_hyphenated |-> allow_hyphenated],
                   is_in_dictionary(self, entries, word, case_sensitive,
                                    allow_hyphenated))
       ELSE Raise("is_in_dictionary")

\* checker.check_tokens(tokens)
CheckTokens(tokens) ==
    /\ ncalls < MaxCalls
    /\ ncalls' = ncalls + 1
    /\ IF CanLoad(self)
       THEN Return([op |-> "check_tokens", raised |-> FALSE, before |-> self,
                    tokens |-> tokens],
                   check_tokens(self, entries, tokens))
       ELSE Raise("check_tokens")

\* checker.analyze_tokens(tokens)
AnalyzeTokens(tokens) ==
    /\ ncalls < MaxCalls
    /\ ncalls' = ncalls + 1
    /\ IF CanLoad(self)
       THEN Return([op |-> "analyze_tokens", raised |-> FALSE, before |-> self,
                    tokens |-> tokens],
                   analyze_tokens(self, entries, tokens))
       ELSE Raise("analyze_tokens")

\* HyphenatedWordHandler(checker, stemmer).is_valid_hyphenated_word(word)
ResolveHyphenated(word, hstemmer) ==
    /\ ncalls < MaxCalls
    /\ ncalls' = ncalls + 1
    /\ IF CanLoad(self)
       THEN Return([op |-> "is_valid_hyphenated_word", raised |-> FALSE,
                    before |-> self, word |-> word, hstemmer |-> hstemmer],
                   is_valid_hyphenated_word(self, entries, hstemmer, word))
       ELSE Raise("is_valid_hyphenated_word")

\* checker.close()
Close ==
    /\ ncalls < MaxCalls
    /\ ncalls' = ncalls + 1
    /\ self' = [self EXCEPT !.conn = "closed"]
    /\ ret' = [op |-> "close", raised |-> FALSE]
    /\ UNCHANGED entries

\* any sequence of calls on one checker
Next ==
    \/ GetDictionarySize
    \/ \E t \in SampleTokens, cs \in BOOLEAN, ah \in BOOLEAN :
          IsInDictionary(t, cs, ah)
    \/ \E ts \in SampleStreams : CheckTokens(ts)
    \/ \E ts \in SampleStreams : AnalyzeTokens(ts)
    \/ \E t \in SampleTokens : ResolveHyphenated(t, self.stemmer)
    \/ Close

Spec == Init /\ [][Next]_vars

\* one token stream given to a freshly constructed checker
StreamNext ==
    \/ \E ts \in Streams : ncalls = 0 /\ CheckTokens(ts)
    \/ \E ts \in Streams : ncalls = 0 /\ AnalyzeTokens(ts)

StreamSpec == Init /\ [][StreamNext]_vars

\* one classification of any token by a freshly constructed checker, through
\* each entry point
ClassifyNext ==
    \/ \E t \in Tokens, cs \in BOOLEAN :
          ncalls = 0 /\ IsInDictionary(t, cs, TRUE)
    \/ \E t \in Tokens : ncalls = 0 /\ AnalyzeTokens(<<t>>)
    \/ \E t \in Tokens : ncalls = 0 /\ ResolveHyphenated(t, self.stemmer)

ClassifySpec == Init /\ [][ClassifyNext]_vars

\* the databases a checker can be constructed on: a path without a database,
\* a table without rows, a table with words
StoreInit ==
    /\ entries \in {NoTable} \cup SUBSET { <<"A", "a">>, <<"a", "a", "s">> }
    /\ \E u \in BOOLEAN, m \in {None, DefaultMethod}, h \in BOOLEAN :
          self = NewChecker(u, m, h)
    /\ ret = NoCall
    /\ ncalls = 0

StoreSpec == StoreInit /\ [][Next]_vars

(***************************************************************************)
(* check_tokenized_files: one run over the files of a tokenized summary.   *)
(* `ret` holds the run (its arguments and local variables), `self` the     *)
(* checker the run creates.                                                *)
(***************************************************************************)
\* files of one summary
MaxFiles == 2

\* names a caller passes as stem_method
MethodNames == Methods \cup {"Porter", "stem"}

\* variant of TokenStemmer.__init__ without the final else: any name is taken
TokenStemmer_AnyMethod(method) == [raised |-> FALSE, method |-> method]

\* TokenStemmer(method): ValueError for a name that is no method
TokenStemmer(method) == [raised |-> method \notin Methods, method |-> method]

\* output_path: none, a path that can be written, a path that cannot
OutputPaths == {None, "results.json", "missing_dir/results.json"}

\* tokenized_data['files']: the token lists of the files
FileLists == UpTo(SampleStreams, MaxFiles)

\* no checker has been created
NoChecker == [conn |-> "none"]

\* a dict without keys
NoKeys == [k \in {} |-> 0]

RECURSIVE InputTotal(_, _)
\* tokenized_data['total_tokens'] as tokenize_files writes it: the number of
\* tokens of the first n files
InputTotal(files, n) ==
    IF n = 0 THEN 0 ELSE Len(files[n]) + InputTotal(files, n - 1)

RECURSIVE SumTo(_, _)
\* sum(counts[1..n])
SumTo(counts, n) == IF n = 0 THEN 0 ELSE counts[n] + SumTo(counts, n - 1)

\* the run at its first line
NewRun(use_stemming, stem_method, files, output_path) ==
    [op |-> "check_tokenized_files", raised |-> FALSE, error |-> None,
     pc |-> "start", use_stemming |-> use_stemming, stem_method |-> stem_method,
     output_path |-> output_path, input |-> files, files |-> files,
     total_tokens |-> InputTotal(files, Len(files)),
     results |-> <<>>, summary |-> NoKeys, total_found |-> 0,
     total_not_found |-> 0, all_not_found_words |-> {},
     classified |-> 0, dict_size |-> 0, written |-> FALSE]

\* the run ends by the exception `error`
RunRaised(run, error) == [run EXCEPT !.raised = TRUE, !.error = error, !.pc = "raised"]

\* lines 277-278: the checker is created and the dictionary is loaded
RunCreated(run, checker) ==
    IF CanLoad(checker)
    THEN /\ self' = get_dictionary_size(checker, entries).self
         /\ ret' = [run EXCEPT !.pc = "files",
                        !.dict_size = get_dictionary_size(checker, entries).value,
                        !.summary =
                           [total_files |-> Len(run.input),
                            total_tokens |-> run.total_tokens,
                            dictionary_words |->
                                get_dictionary_size(checker, entries).value,
                            stemming_enabled |-> run.use_stemming,
                            stem_method |-> IF run.use_stemming
                                            THEN run.stem_method ELSE None]]
    ELSE /\ self' = checker
         /\ ret' = RunRaised(run, "OperationalError")

\* lines 259-291: the stemmer if requested, the checker, the dictionary size
RunStart(use_stemming, stem_method, files, output_path) ==
    /\ ret = NoCall
    /\ ncalls' = 1
    /\ UNCHANGED entries
    /\ IF use_stemming /\ TokenStemmer(stem_method).raised
       THEN /\ ret' = RunRaised(NewRun(use_stemming, stem_method, files, output_path),
                                "ValueError")
            /\ UNCHANGED self
       ELSE RunCreated(NewRun(use_stemming, stem_method, files, output_path),
                       NewChecker(use_stemming,
                                  IF use_stemming THEN stem_method ELSE None,
                                  TRUE))

\* lines 305-335: the results of one file, from its analysis
FileResults(analysis, checker) ==
    [total_tokens |-> analysis.total_tokens,
     found_count |-> analysis.found_count,
     not_found_count |-> analysis.not_found_count,
     found_percentage |-> analysis.found_percentage,
     unique_not_found |-> analysis.unique_not_found,
     not_found_tokens |-> analysis.unique_not_found_list]
    @@ (IF ~(checker.use_stemming \/ checker.handle_hyphenated) THEN NoKeys
        ELSE [stem_found_count |-> analysis.stem_found_count,
              hyphenated_found_count |-> analysis.hyphenated_found_count,
              combined_found_count |-> analysis.combined_found_count,
              combined_found_percentage |-> analysis.combined_found_percentage,
              stem_contribution |-> analysis.stem_contribution,
              hyphenated_contribution |-> analysis.hyphenated_contribution,
              unique_stem_found |-> analysis.unique_stem_found,
              stem_found_tokens |-> analysis.unique_stem_found_list,
              unique_hyphenated_found |-> analysis.unique_hyphenated_found,
              hyphenated_found_tokens |-> analysis.unique_hyphenated_found_list])

\* f.get('stem_found_count', 0)
StemFoundCount(f) ==
    IF "stem_found_count" \in DOMAIN f THEN f.stem_found_count ELSE 0
\* f.get('hyphenated_found_count', 0)
HyphenatedFoundCount(f) ==
    IF "hyphenated_found_count" \in DOMAIN f THEN f.hyphenated_found_count ELSE 0
\* f.get('combined_found_count', 0)
CombinedFoundCount(f) ==
    IF "combined_found_count" \in DOMAIN f THEN f.combined_found_count ELSE 0
\* lines 358-359: the file's stem_found_tokens, if it has the key
StemFoundTokens(f) ==
    IF "stem_found_tokens" \in DOMAIN f THEN Range(f.stem_found_tokens) ELSE {}
\* lines 360-361: the file's hyphenated_found_tokens, if it has the key
HyphenatedFoundTokens(f) ==
    IF "hyphenated_found_tokens" \in DOMAIN f
    THEN Range(f.hyphenated_found_tokens) ELSE {}

\* lines 302-340: a is the analysis of the next file
RunAnalysed(a) ==
    /\ self' = a.self
    /\ ret' = [ret EXCEPT !.files = Tail(@),
                          !.results = Append(@, FileResults(a.result, a.self)),
                          !.total_found = @ + a.result.found_count,
                          !.total_not_found = @ + a.result.not_found_count,
                          !.all_not_found_words =
                              @ \cup Range(a.result.unique_not_found_list),
                          !.classified = @ + a.result.total_tokens]

\* lines 298-340: one turn of the loop over the files
RunFile ==
    /\ ret.op = "check_tokenized_files"
    /\ ret.pc = "files"
    /\ ret.files # <<>>
    /\ RunAnalysed(analyze_tokens(self, entries, Head(ret.files)))
    /\ UNCHANGED <<entries, ncalls>>

\* lines 342-377: the summary of the run
Summary(run, checker) ==
    LET files == run.results
        n == Len(files)
        total_stem_found ==
            SumTo([i \in 1..n |-> StemFoundCount(files[i])], n)
        total_hyphenated_found ==
            SumTo([i \in 1..n |-> HyphenatedFoundCount(files[i])], n)
        total_combined_found ==
            SumTo([i \in 1..n |-> CombinedFoundCount(files[i])], n)
        all_stem_found == UNION {StemFoundTokens(files[i]) : i \in 1..n}
        all_hyphenated_found ==
            UNION {HyphenatedFoundTokens(files[i]) : i \in 1..n}
    IN  run.summary
        @@ [total_found |-> run.total_found,
            total_not_found |-> run.total_not_found,
            found_percentage |->
                Percent(run.total_found, run.total_found + run.total_not_found),
            unique_not_found_words |-> Cardinality(run.all_not_found_words),
            all_not_found_words |-> sorted(run.all_not_found_words)]
        @@ (IF ~(run.use_stemming \/ checker.handle_hyphenated) THEN NoKeys
            ELSE (IF total_stem_found > 0
                  THEN [total_stem_found |-> total_stem_found,
                        stem_contribution |->
                            Percent(total_stem_found, run.total_tokens),
                        unique_stem_found_words |-> Cardinality(all_stem_found)]
                  ELSE NoKeys)
              @@ (IF total_hyphenated_found > 0
                  THEN [total_hyphenated_found |-> total_hyphenated_found,
                        hyphenated_contribution |->
                            Percent(total_hyphenated_found, run.total_tokens),
                        unique_hyphenated_found_words |->
                            Cardinality(all_hyphenated_found)]
                  ELSE NoKeys)
              @@ (IF total_combined_found > 0
                  THEN [total_combined_found |-> total_combined_found,
                        combined_found_percentage |->
                            Percent(total_combined_found,
                                    total_combined_found + run.total_not_found)]
                  ELSE NoKeys)
              @@ [stemming_stats |-> checker.stem_match_stats])

\* lines 342-389: the summary, the results file if asked for, close
RunFinish ==
    /\ ret.op = "check_tokenized_files"
    /\ ret.pc = "files"
    /\ ret.files = <<>>
    /\ IF ret.output_path = "missing_dir/results.json"
       THEN /\ ret' = RunRaised([ret EXCEPT !.summary = Summary(ret, self)],
                                "FileNotFoundError")
            /\ UNCHANGED self
       ELSE /\ ret' = [ret EXCEPT !.pc = "done",
                                  !.summary = Summary(ret, self),
                                  !.written = (ret.output_path # None)]
            /\ self' = [self EXCEPT !.conn = "closed"]
    /\ UNCHANGED <<entries, ncalls>>

\* before the run: a database, no checker
RunInit ==
    /\ entries \in {NoTable} \cup SUBSET { <<"A", "a">>, <<"a", "a", "-", "a", "a", "s">> }
    /\ self = NoChecker
    /\ ret = NoCall
    /\ ncalls = 0

RunNext ==
    \/ \E u \in BOOLEAN, m \in MethodNames, fs \in FileLists, o \in OutputPaths :
          RunStart(u, m, fs, o)
    \/ RunFile
    \/ RunFinish

RunSpec == RunInit /\ [][RunNext]_vars

(***************************************************************************)
(* TokenStemmer.stem_token on its own: `self` is a TokenStemmer, `ret` the *)
(* last call of stem_token.                                                *)
(***************************************************************************)
\* longest token given to stem_token
MaxTokenLen == 3

\* characters of the tokens: letters, a digit, a hyphen, an apostrophe, a
\* full stop, a newline
StemChars == Chars \cup {"'", ".", "\n"}

StemTokens == UpTo(StemChars, MaxTokenLen)

\* stemmer.stem_token(token)
StemToken(token) ==
    /\ ncalls < MaxCalls
    /\ ncalls' = ncalls + 1
    /\ ret' = [op |-> "stem_token", raised |-> FALSE, token |-> token,
               value |-> stem_token(self.method, token)]
    /\ UNCHANGED <<entries, self>>

\* a stemmer of each method
StemInit ==
    /\ entries = {}
    /\ \E m \in Methods : self = [method |-> TokenStemmer(m).method]
    /\ ret = NoCall
    /\ ncalls = 0

\* one call on a new stemmer
StemNext == \E t \in StemTokens : ncalls = 0 /\ StemToken(t)

StemSpec == StemInit /\ [][StemNext]_vars

(***************************************************************************)
(* A checker on a database that another process writes between the calls.  *)
(***************************************************************************)
\* words of the table, two of them equal but for case
LoadVocab == { <<"A", "a">>, <<"a", "a">>, <<"a", "a", "s">> }

\* another connection inserts or deletes rows of the table
DbWrite ==
    /\ entries' \in SUBSET LoadVocab
    /\ entries' # entries
    /\ UNCHANGED <<self, ret, ncalls>>

LoadInit ==
    /\ entries \in SUBSET LoadVocab
    /\ \E u \in BOOLEAN, m \in {None, DefaultMethod}, h \in BOOLEAN :
          self = NewChecker(u, m, h)
    /\ ret = NoCall
    /\ ncalls = 0

LoadNext == Next \/ DbWrite

LoadSpec == LoadInit /\ [][LoadNext]_vars

(***************************************************************************)
(* Two worker threads share one checker: each calls is_in_dictionary once, *)
(* and the statements of the call interleave.  `ret` holds the thread that  *)
(* created the checker (and with it the SQLite connection and cursor) and  *)
(* each worker's position and local variables.                             *)
(***************************************************************************)
Workers == {1, 2}

\* the thread that constructed the checker: worker 1, or a thread that is no
\* worker (0)
Creators == {0, 1}

\* tokens the workers look up
WorkerTokens == { <<"A", "a">>, <<"a", "a", "s">>, <<"a", "a", "-", "a", "a", "s">> }

\* a worker that has not called yet
IdleWorker == [pc |-> "idle", word |-> <<>>, rows |-> {}, found |-> FALSE,
               match_type |-> None]

\* worker w moves to position pc
Goto(w, pc) == ret' = [ret EXCEPT !.worker[w].pc = pc]

\* worker w calls checker.is_in_dictionary(word)
WorkerCall(w, word) ==
    /\ ret.worker[w].pc = "idle"
    /\ ret' = [ret EXCEPT !.worker[w].pc = "line43", !.worker[w].word = word]
    /\ ncalls' = ncalls + 1
    /\ UNCHANGED <<entries, self>>

\* line 43: if self._cache_initialized: return
WorkerTestFlag(w) ==
    /\ ret.worker[w].pc = "line43"
    /\ Goto(w, IF self.cache_initialized THEN "line74" ELSE "line47")
    /\ UNCHANGED <<entries, self, ncalls>>

\* line 47: self.cursor.execute(...); sqlite3 raises ProgrammingError when the
\* cursor is used by a thread other than the one that created it
WorkerExecute(w) ==
    /\ ret.worker[w].pc = "line47"
    /\ IF w = ret.creator
       THEN ret' = [ret EXCEPT !.worker[w].pc = "line48",
                               !.worker[w].rows = LoadWords(entries)]
       ELSE Goto(w, "raised")
    /\ UNCHANGED <<entries, self, ncalls>>

\* line 48: self._word_cache = {row[0] for row in self.cursor.fetchall()}
WorkerFill(w) ==
    /\ ret.worker[w].pc = "line48"
    /\ self' = [self EXCEPT !.word_cache = ret.worker[w].rows]
    /\ Goto(w, "line49")
    /\ UNCHANGED <<entries, ncalls>>

\* line 49: self._cache_initialized = True
WorkerSetFlag(w) ==
    /\ ret.worker[w].pc = "line49"
    /\ self' = [self EXCEPT !.cache_initialized = TRUE]
    /\ Goto(w, "line74")
    /\ UNCHANGED <<entries, ncalls>>

\* lines 74-75: is the handler needed, and is there none yet
WorkerTestHandler(w) ==
    /\ ret.worker[w].pc = "line74"
    /\ Goto(w, IF self.handle_hyphenated /\ HasHyphen(ret.worker[w].word)
                  /\ ~self.hyphenated_handler.created
               THEN "line83" ELSE "line85")
    /\ UNCHANGED <<entries, self, ncalls>>

\* line 83: self._hyphenated_handler = HyphenatedWordHandler(self, self.stemmer)
WorkerCreateHandler(w) ==
    /\ ret.worker[w].pc = "line83"
    /\ self' = LazyHandler([self EXCEPT !.hyphenated_handler = NoHandler])
    /\ Goto(w, "line85")
    /\ UNCHANGED <<entries, ncalls>>

\* r is what the lines 85-106 return to worker w
WorkerReturn(w, r) ==
    /\ self' = r.self
    /\ ret' = [ret EXCEPT !.worker[w].pc = "done",
                          !.worker[w].found = r.found,
                          !.worker[w].match_type = r.match_type]

\* lines 85-106: the handler's verdict, the plain lookup, the counter
WorkerLookup(w) ==
    /\ ret.worker[w].pc = "line85"
    /\ WorkerReturn(w, Lookup(self, entries, ret.worker[w].word, FALSE, TRUE))
    /\ UNCHANGED <<entries, ncalls>>

\* a new checker, created by one of the threads, and two idle workers
ConcInit ==
    /\ entries \in SUBSET { <<"A", "a">>, <<"a", "a">>, <<"a", "a", "s">> }
    /\ \E u \in BOOLEAN, m \in {None, DefaultMethod}, h \in BOOLEAN :
          self = NewChecker(u, m, h)
    /\ \E c \in Creators :
          ret = [op |-> "workers", raised |-> FALSE, creator |-> c,
                 worker |-> [w \in Workers |-> IdleWorker]]
    /\ ncalls = 0

ConcNext ==
    \/ \E w \in Workers, t \in WorkerTokens : WorkerCall(w, t)
    \/ \E w \in Workers : WorkerTestFlag(w)
    \/ \E w \in Workers : WorkerExecute(w)
    \/ \E w \in Workers : WorkerFill(w)
    \/ \E w \in Workers : WorkerSetFlag(w)
    \/ \E w \in Workers : WorkerTestHandler(w)
    \/ \E w \in Workers : WorkerCreateHandler(w)
    \/ \E w \in Workers : WorkerLookup(w)

ConcSpec == ConcInit /\ [][ConcNext]_vars

(***************************************************************************)
(* Token streams whose tokens differ in case only.                         *)
(***************************************************************************)
CaseTokens ==
    { <<"a", "a">>, <<"A", "a">>, <<"a", "a", "s">>,
      <<"a", "a", "-", "a", "a", "s">>, <<"A", "a", "-", "a", "a", "s">> }

CaseStreams == UpTo(CaseTokens, MaxStream)

CaseInit ==
    /\ entries \in SUBSET { <<"A", "a">>, <<"a", "a", "s">> }
    /\ \E u \in BOOLEAN, m \in {None, DefaultMethod}, h \in BOOLEAN :
          self = NewChecker(u, m, h)
    /\ ret = NoCall
    /\ ncalls = 0

\* one stream given to a new checker
CaseNext ==
    \/ \E ts \in CaseStreams : ncalls = 0 /\ CheckTokens(ts)
    \/ \E ts \in CaseStreams : ncalls = 0 /\ AnalyzeTokens(ts)

CaseSpec == CaseInit /\ [][CaseNext]_vars

\* words of a database that holds numbers too: a letter, a number and a
\* hyphenated number
OddVocab == { <<"a">>, <<"1">>, <<"1", "-", "1">> }

\* the parts of malformed tokens: nothing, a digit, a punctuation mark, a
\* letter
OddParts == { <<>>, <<"1">>, <<".">>, <<"a">> }

\* malformed tokens: the empty string, "-", "--", ".", "1-1", "-1", "a-", ...
OddTokens == {Join(ps) : ps \in UNION {[1..k -> OddParts] : k \in 1..MaxParts}}

OddInit ==
    /\ entries \in SUBSET OddVocab
    /\ \E u \in BOOLEAN, m \in {None, DefaultMethod}, h \in BOOLEAN :
          self = NewChecker(u, m, h)
    /\ ret = NoCall
    /\ ncalls = 0

\* one classification of a malformed token by a freshly constructed checker
OddNext ==
    \/ \E t \in OddTokens, cs \in BOOLEAN :
          ncalls = 0 /\ IsInDictionary(t, cs, TRUE)
    \/ \E t \in OddTokens : ncalls = 0 /\ AnalyzeTokens(<<t>>)
    \/ \E t \in OddTokens : ncalls = 0 /\ ResolveHyphenated(t, self.stemmer)

OddSpec == OddInit /\ [][OddNext]_vars

(***************************************************************************)
(* Vocabulary of the properties.                                           *)
(***************************************************************************)
\* the store: the lower-cased words of the database
Store == {Lower(w) : w \in entries}

\* the last call was op and it returned
Returned(op) == ret.op = op /\ ~ret.raised

\* the last call classified one token through is_in_dictionary with its
\* default arguments but for case_sensitive
Looked == Returned("is_in_dictionary") /\ ret.allow_hyphenated

\* the last call classified one token through analyze_tokens
Analyzed == Returned("analyze_tokens") /\ Len(ret.tokens) = 1

\* the match type analyze_tokens gave its only token
AnalyzedType ==
    IF ret.result.not_found_tokens # <<>> THEN "none"
    ELSE ret.result.match_details[1].match_type

\* the last call asked the hyphen handler about a hyphenated token
Resolved == Returned("is_valid_hyphenated_word") /\ HasHyphen(ret.word)

\* the normalized form of w under the checker's stemmer
StemOf(w) == stem_token(self.stemmer, w)

\* w is found by a lookup with allow_hyphenated=False: it is in the store, or
\* stemming is on and its stem is another word of the store
Accepts(w) ==
    \/ Lower(w) \in Store
    \/ /\ self.use_stemming
       /\ self.stemmer # None
       /\ StemOf(w) # Lower(w)
       /\ StemOf(w) \in Store

\* the alphabetic hyphen-delimited components of w
Alphas(w) == SelectSeq(SelectSeq(Split(w), NonEmpty), IsAlpha)

AllOf(l, P(_)) == \A i \in 1..Len(l) : P(l[i])
InStore(w) == Lower(w) \in Store

\* a compound like "well-known": two alphabetic components of two letters or
\* more, both in the store
Compound(w) ==
    /\ HasHyphen(w)
    /\ Len(Split(w)) = 2
    /\ Len(Alphas(w)) = 2
    /\ AllOf(Alphas(w), LAMBDA c : Len(c) >= 2 /\ InStore(c))

(***************************************************************************)
(* C1.  A token that starts or ends with a hyphen is never accepted: with  *)
(* hyphen handling on, is_in_dictionary and analyze_tokens report it not   *)
(* found, and the handler returns (False, 'none') with the OCR-error       *)
(* reason, whatever the store holds.                                       *)
(***************************************************************************)
C1_EdgeHyphenRejected ==
    /\ (Looked /\ self.handle_hyphenated /\ EdgeHyphen(ret.word))
          => (~ret.found /\ ret.match_type = "none")
    /\ (Analyzed /\ self.handle_hyphenated /\ EdgeHyphen(ret.tokens[1]))
          => AnalyzedType = "none"
    /\ (Resolved /\ EdgeHyphen(ret.word))
          => (/\ ~ret.is_valid
              /\ ret.match_type = "none"
              /\ ret.details.reason = "edge_hyphen_likely_ocr_error")

(***************************************************************************)
(* C2.  A token whose lower-cased form is in the store is reported as      *)
(* 'original' by is_in_dictionary and by analyze_tokens, with stemming and *)
(* hyphen handling on or off, hyphenated tokens included.                  *)
(***************************************************************************)
C2_StoreMemberIsOriginal ==
    /\ (Looked /\ ~ret.case_sensitive /\ InStore(ret.word))
          => ret.match_type = "original"
    /\ (Analyzed /\ InStore(ret.tokens[1]))
          => AnalyzedType = "original"

(***************************************************************************)
(* C3.  As claimed: a compound whose two components are in the store is    *)
(* 'hyphenated_whole' if its literal form is in the store and              *)
(* 'hyphenated_components' otherwise.                                      *)
(***************************************************************************)
C3_WholeElseComponents ==
    /\ (Looked /\ self.handle_hyphenated /\ Compound(ret.word))
          => ret.match_type = (IF InStore(ret.word) THEN "hyphenated_whole"
                               ELSE "hyphenated_components")
    /\ (Analyzed /\ self.handle_hyphenated /\ Compound(ret.tokens[1]))
          => AnalyzedType = (IF InStore(ret.tokens[1]) THEN "hyphenated_whole"
                             ELSE "hyphenated_components")

(***************************************************************************)
(* C3, amended.  For a compound whose two components are in the store:     *)
(* if its literal form is in the store, is_in_dictionary reports           *)
(* 'hyphenated_whole' and analyze_tokens, which tests membership first,    *)
(* reports 'original'; otherwise, if the compound written solid is found   *)
(* by the lookup, both report 'hyphenated_dehyphenated'; otherwise both    *)
(* report 'hyphenated_components'.                                         *)
(***************************************************************************)
C3_CompoundPrecedence ==
    /\ (Looked /\ self.handle_hyphenated /\ Compound(ret.word))
          => ret.match_type =
               (IF InStore(ret.word) THEN "hyphenated_whole"
                ELSE IF Accepts(Dehyphenate(ret.word)) THEN "hyphenated_dehyphenated"
                ELSE "hyphenated_components")
    /\ (Analyzed /\ self.handle_hyphenated /\ Compound(ret.tokens[1]))
          => AnalyzedType =
               (IF InStore(ret.tokens[1]) THEN "original"
                ELSE IF Accepts(Dehyphenate(ret.tokens[1])) THEN "hyphenated_dehyphenated"
                ELSE "hyphenated_components")

\* analyze_tokens met a compound that is in the store with both components
C3_Witness ==
    /\ Analyzed
    /\ self.handle_hyphenated
    /\ Compound(ret.tokens[1])
    /\ InStore(ret.tokens[1])
    /\ AnalyzedType = "original"

(***************************************************************************)
(* C4.  The handler tries whole word, dehyphenated word, structural        *)
(* rejection, components, stemmed components in that order; its result is  *)
(* that of the first step whose condition holds, and it makes the lookups  *)
(* of the steps up to that one and no other.                               *)
(***************************************************************************)
\* the conditions of the five steps for word w and a handler with stemmer hs
WholeHolds(w) == Accepts(w)
DehyphenatedHolds(w) ==
    /\ Dehyphenate(w) # <<>>
    /\ IsAlpha(Dehyphenate(w))
    /\ Accepts(Dehyphenate(w))
StructureHolds(w) ==
    \/ w[1] = Hyphen
    \/ w[Len(w)] = Hyphen
    \/ \E i \in 1..Len(Alphas(w)) : Len(Alphas(w)[i]) < 2
ComponentsHold(w) == Alphas(w) # <<>> /\ AllOf(Alphas(w), Accepts)
StemComponentsHold(w, hs) ==
    /\ hs # None
    /\ Alphas(w) # <<>>
    /\ AllOf(Alphas(w), LAMBDA c : Accepts(c) \/ Accepts(stem_token(hs, c)))

\* the first step that decides; 6 when none does
FirstStep(w, hs) ==
    IF WholeHolds(w) THEN 1
    ELSE IF DehyphenatedHolds(w) THEN 2
    ELSE IF StructureHolds(w) THEN 3
    ELSE IF ComponentsHold(w) THEN 4
    ELSE IF StemComponentsHold(w, hs) THEN 5
    ELSE 6

StepOutcome(n) ==
    <<"whole", "dehyphenated", "none", "components", "stem_components", "none">>[n]

RECURSIVE LookupsOf(_)
\* the store lookups of a call log, in order, as <<strategy, word>>
LookupsOf(log) ==
    IF log = <<>> THEN <<>>
    ELSE IF Head(log).kind = "lookup"
    THEN <<<<Head(log).strategy, Head(log).word>>>> \o LookupsOf(Tail(log))
    ELSE LookupsOf(Tail(log))

MapSeq(l, F(_)) == [i \in 1..Len(l) |-> F(l[i])]

Rejected(c) == ~Accepts(c)

\* the lookups of the steps 1..n for word w
LookupsUpTo(w, hs, n) ==
    <<<<"whole", w>>>>
    \o (IF Dehyphenate(w) # <<>> /\ IsAlpha(Dehyphenate(w)) /\ n >= 2
        THEN <<<<"dehyphenated", Dehyphenate(w)>>>> ELSE <<>>)
    \o (IF n >= 4
        THEN MapSeq(Alphas(w), LAMBDA c : <<"components", c>>) ELSE <<>>)
    \o (IF n >= 5 /\ hs # None /\ Alphas(w) # <<>>
        THEN MapSeq(SelectSeq(Alphas(w), Rejected),
                    LAMBDA c : <<"stem_components", stem_token(hs, c)>>)
        ELSE <<>>)

C4_FirstDecidingStep ==
    Resolved =>
        LET n == FirstStep(ret.word, ret.hstemmer)
        IN  /\ ret.match_type = StepOutcome(n)
            /\ ret.is_valid = (n \in {1, 2, 4, 5})
            /\ LookupsOf(ret.log) = LookupsUpTo(ret.word, ret.hstemmer, n)

\* the dehyphenated word decided although every component is in the store
C4_Witness ==
    /\ Resolved
    /\ ret.match_type = "dehyphenated"
    /\ ~StructureHolds(ret.word)
    /\ ComponentsHold(ret.word)

(***************************************************************************)
(* C8.  Stem fallback.  A token without hyphen that is not in the store,   *)
(* whose stem differs from its lower-cased form and is in the store, is    *)
(* 'stem' when stemming is on with a stemmer and not found when stemming   *)
(* is off; and 'stem' is returned only for tokens that are not in the      *)
(* store and whose stem differs from the lower-cased token and is in the   *)
(* store.                                                                  *)
(***************************************************************************)
\* the three conditions of the stem fallback for token t
StemConditions(t) ==
    /\ ~InStore(t)
    /\ StemOf(t) # Lower(t)
    /\ StemOf(t) \in Store

C8_StemFallback ==
    /\ (Looked /\ ~HasHyphen(ret.word) /\ StemConditions(ret.word)
            /\ self.stemmer # None)
          => ret.match_type = (IF self.use_stemming THEN "stem" ELSE "none")
    /\ (Analyzed /\ ~HasHyphen(ret.tokens[1]) /\ StemConditions(ret.tokens[1])
            /\ self.stemmer # None)
          => AnalyzedType = (IF self.use_stemming THEN "stem" ELSE "none")
    /\ (Looked /\ ret.match_type = "stem")
          => (self.use_stemming /\ self.stemmer # None /\ StemConditions(ret.word))
    /\ (Analyzed /\ AnalyzedType = "stem")
          => (self.use_stemming /\ self.stemmer # None
                /\ StemConditions(ret.tokens[1]))

(***************************************************************************)
(* C9.  Component fallback.  A hyphenated token without leading or         *)
(* trailing hyphen, whose whole form and dehyphenated form are not in the  *)
(* store and whose alphabetic components (at least one) all have two       *)
(* letters or more and are all in the store, is classified as the          *)
(* components variant; non-alphabetic components are ignored.              *)
(***************************************************************************)
ComponentCase(w) ==
    /\ HasHyphen(w)
    /\ w[1] # Hyphen
    /\ w[Len(w)] # Hyphen
    /\ ~InStore(w)
    /\ ~InStore(Dehyphenate(w))
    /\ Alphas(w) # <<>>
    /\ AllOf(Alphas(w), LAMBDA c : Len(c) >= 2 /\ InStore(c))

C9_ComponentFallback ==
    /\ (Looked /\ self.handle_hyphenated /\ ComponentCase(ret.word))
          => ret.match_type = "hyphenated_components"
    /\ (Analyzed /\ self.handle_hyphenated /\ ComponentCase(ret.tokens[1]))
          => AnalyzedType = "hyphenated_components"
    /\ (Resolved /\ ComponentCase(ret.word))
          => ret.match_type = "components"

(***************************************************************************)
(* C10.  The inner lookups of the handler are plain membership tests: it   *)
(* returns 'dehyphenated' only if the lower-cased dehyphenated word is in  *)
(* the store and 'components' only if every alphabetic component,          *)
(* lower-cased, is in the store, whatever use_stemming is.                 *)
(***************************************************************************)
C10_InnerLookupsPlain ==
    Resolved =>
        /\ ret.match_type = "dehyphenated" => InStore(Dehyphenate(ret.word))
        /\ ret.match_type = "components" => AllOf(Alphas(ret.word), InStore)

(***************************************************************************)
(* C5.  analyze_tokens counts every token of its stream in exactly one     *)
(* variant: the four counts add up to total_tokens, which is the length    *)
(* of the stream, combined_found_count + not_found_count is total_tokens,  *)
(* and every token occurs in the four lists together as often as in the    *)
(* stream.                                                                 *)
(***************************************************************************)
Occurrences(t, l) == Cardinality({i \in 1..Len(l) : l[i] = t})

C5_EveryTokenCountedOnce ==
    Returned("analyze_tokens") =>
        LET r == ret.result
        IN  /\ r.found_count + r.stem_found_count + r.hyphenated_found_count
                 + r.not_found_count = r.total_tokens
            /\ r.total_tokens = Len(ret.tokens)
            /\ r.combined_found_count + r.not_found_count = r.total_tokens
            /\ \A t \in SampleTokens :
                  Occurrences(t, r.found_tokens \o r.stem_found_tokens
                                   \o r.hyphenated_found_tokens
                                   \o r.not_found_tokens)
                     = Occurrences(t, ret.tokens)

\* a stream of three tokens, one found by its stem, one through the hyphen
\* handler and one not found
C5_Witness ==
    /\ Returned("analyze_tokens")
    /\ ret.result.stem_found_count = 1
    /\ ret.result.hyphenated_found_count = 1
    /\ ret.result.not_found_count = 1

(***************************************************************************)
(* C6.  The running counters count classified tokens per variant: a call   *)
(* of is_in_dictionary adds one to the counter of the variant it returns   *)
(* and leaves the other counters alone, and check_tokens adds one per      *)
(* token it classifies, so that after n classifications on a fresh checker *)
(* the counters add up to n.                                               *)
(***************************************************************************)
CounterOf(match_type) ==
    IF match_type = "original" THEN "original_matches"
    ELSE IF match_type = "stem" THEN "stem_matches"
    ELSE IF match_type = "none" THEN "no_matches"
    ELSE "hyphenated_matches"

Total(stats) ==
    stats.original_matches + stats.stem_matches + stats.hyphenated_matches
        + stats.no_matches

C6_CountersCountTokens ==
    /\ Returned("is_in_dictionary")
          => self.stem_match_stats =
                [ret.before.stem_match_stats EXCEPT ![CounterOf(ret.match_type)] = @ + 1]
    /\ Returned("check_tokens")
          => Total(self.stem_match_stats) =
                Total(ret.before.stem_match_stats) + Cardinality(DOMAIN ret.results)

(***************************************************************************)
(* C7.  Classification does not depend on the calls made before: what      *)
(* is_in_dictionary returns for a token, and the match types and the       *)
(* not-found tokens analyze_tokens reports for a stream, are what a        *)
(* freshly constructed checker with the same store and configuration       *)
(* gives.                                                                  *)
(***************************************************************************)
Fresh == NewChecker(self.use_stemming, self.stemmer, self.handle_hyphenated)

C7_HistoryIndependent ==
    /\ Returned("is_in_dictionary")
          => LET f == is_in_dictionary(Fresh, entries, ret.word, ret.case_sensitive,
                                       ret.allow_hyphenated)
             IN  ret.found = f.found /\ ret.match_type = f.match_type
    /\ Returned("analyze_tokens")
          => LET f == analyze_tokens(Fresh, entries, ret.tokens).result
             IN  /\ ret.result.match_details = f.match_details
                 /\ ret.result.not_found_tokens = f.not_found_tokens

\* a compound accepted through the stems of its components by a checker
\* whose cache and handler an earlier analyze_tokens call set up
C7_Witness ==
    /\ Returned("is_in_dictionary")
    /\ ret.before.cache_initialized
    /\ ret.before.hyphenated_handler.created
    /\ Total(ret.before.stem_match_stats) > 0
    /\ ret.match_type = "hyphenated_stem_components"

(***************************************************************************)
(* C11.  Short-component guard.  When the whole and the dehyphenated       *)
(* lookups of a hyphenated token missed and one of its alphabetic          *)
(* components has fewer than two letters, the handler returns              *)
(* (False, 'none') with an OCR-error reason, never 'components' or         *)
(* 'stem_components', whatever the store holds, and it makes no component  *)
(* lookup; both entry points report the token not found.                   *)
(***************************************************************************)
OcrReasons == {"edge_hyphen_likely_ocr_error", "short_component_likely_ocr_error"}

\* w reaches the structural guard and has a short alphabetic component
ShortCase(w) ==
    /\ HasHyphen(w)
    /\ ~WholeHolds(w)
    /\ ~DehyphenatedHolds(w)
    /\ \E i \in 1..Len(Alphas(w)) : Len(Alphas(w)[i]) < 2

ComponentLookup(l) == l[1] \in {"components", "stem_components"}

C11_ShortComponentRejected ==
    /\ (Resolved /\ ShortCase(ret.word))
          => /\ ~ret.is_valid
             /\ ret.match_type = "none"
             /\ ret.details.reason \in OcrReasons
             /\ SelectSeq(LookupsOf(ret.log), ComponentLookup) = <<>>
    /\ (Looked /\ self.handle_hyphenated /\ ShortCase(ret.word))
          => (~ret.found /\ ret.match_type = "none")
    /\ (Analyzed /\ self.handle_hyphenated /\ ShortCase(ret.tokens[1]))
          => AnalyzedType = "none"

\* the guard rejected a token all of whose components are in the store
C11_Witness ==
    /\ Resolved
    /\ ShortCase(ret.word)
    /\ ret.details.reason = "short_component_likely_ocr_error"
    /\ Len(Alphas(ret.word)) = 2
    /\ AllOf(Alphas(ret.word), InStore)

(***************************************************************************)
(* C12.  Stem-component check.  The handler returns 'stem_components'      *)
(* exactly when it holds a stemmer, none of the earlier steps decided, the *)
(* token has an alphabetic component, and every alphabetic component is in *)
(* the store or has its stem in the store; without a stemmer it never      *)
(* returns 'stem_components'.                                              *)
(***************************************************************************)
\* c is in the store, or its stem under the handler's stemmer hs is
DirectOrStem(c, hs) == InStore(c) \/ stem_token(hs, c) \in Store

NoAlphabeticComponent(w) == HasHyphen(w) /\ Alphas(w) = <<>>

AtEdge(w) == w[1] = Hyphen \/ w[Len(w)] = Hyphen

Malformed(t) == \A i \in 1..Len(t) : ~IsAlphaCh(t[i])

\* the last call was one of the two entry points
EntryPoint == ret.op \in {"is_in_dictionary", "analyze_tokens"}

C14_MalformedNotFound ==
    /\ EntryPoint => ~ret.raised
    /\ (Looked /\ Malformed(ret.word))
          => (~ret.found /\ ret.match_type = "none")
    /\ (Analyzed /\ Malformed(ret.tokens[1]))
          => /\ ret.result.not_found_tokens = ret.tokens
             /\ ret.result.match_details = <<>>

(***************************************************************************)
(* C14, amended.  is_in_dictionary and analyze_tokens return for every     *)
(* token without raising.  A token without any alphabetic character is     *)
(* found exactly when its lower-cased form is itself in the store;         *)
(* otherwise is_in_dictionary returns (False, 'none') and analyze_tokens   *)
(* lists it under not_found_tokens only, with no entry in match_details.   *)
(***************************************************************************)
C14_MalformedUnlessStored ==
    /\ EntryPoint => ~ret.raised
    /\ (Looked /\ Malformed(ret.word))
          => /\ ret.found = InStore(ret.word)
             /\ ~InStore(ret.word) => ret.match_type = "none"
    /\ (Analyzed /\ Malformed(ret.tokens[1]))
          => IF InStore(ret.tokens[1])
             THEN /\ ret.result.found_tokens = ret.tokens
                  /\ ret.result.not_found_tokens = <<>>
             ELSE /\ ret.result.not_found_tokens = ret.tokens
                  /\ ret.result.match_details = <<>>
                  /\ ret.result.combined_found_count = 0

\* the empty string went through analyze_tokens and was not found
C14_Witness ==
    /\ Analyzed
    /\ ret.tokens[1] = <<>>
    /\ ret.result.not_found_tokens = <<<<>>>>
    /\ ret.result.match_details = <<>>

(***************************************************************************)
(* C15.  As claimed: a checker is never constructed on a missing or empty  *)
(* store, so no per-token call (is_in_dictionary, check_tokens,            *)
(* analyze_tokens) is made on such a store: none raises the store's        *)
(* failure and none returns a result computed on the empty store.          *)
(***************************************************************************)
PerTokenOps == {"is_in_dictionary", "check_tokens", "analyze_tokens"}

C15_StoreFailureAtConstruction ==
    (entries = NoTable \/ entries = {}) => ret.op \notin PerTokenOps

(***************************************************************************)
(* C16.  As claimed: a run of check_tokenized_files given a name that is   *)
(* not porter, snowball or lemmatize ends by the ValueError of             *)
(* TokenStemmer, with no token classified and no result written.           *)
(***************************************************************************)
Run == ret.op = "check_tokenized_files"

BadMethod == Run /\ ret.stem_method \notin Methods

Halted ==
    /\ ret.pc = "raised"
    /\ ret.error = "ValueError"
    /\ ret.classified = 0
    /\ ret.results = <<>>
    /\ ~ret.written

C16_UnknownMethodHalts == BadMethod => Halted

(***************************************************************************)
(* C16, amended.  TokenStemmer construction rejects every name other than  *)
(* porter, snowball and lemmatize, and check_tokenized_files constructs    *)
(* the stemmer only when use_stemming is true: such a run given an         *)
(* unrecognized name halts with ValueError before a checker exists, before *)
(* any token is classified and before any result is written.  With         *)
(* use_stemming false the name is never examined: no ValueError is raised   *)
(* and the run goes on with a checker that has no stemmer.                 *)
(***************************************************************************)
C16_UnknownMethodHaltsWhenStemming ==
    /\ (BadMethod /\ ret.use_stemming) => (Halted /\ self = NoChecker)
    /\ (BadMethod /\ ~ret.use_stemming)
          => /\ ret.error # "ValueError"
             /\ self # NoChecker
             /\ self.stemmer = None
             /\ ~self.use_stemming
    /\ (Run /\ ret.error = "ValueError") => (BadMethod /\ ret.use_stemming)

\* a run with stemming and an unrecognized name, given files with tokens, has
\* halted
C16_Witness ==
    /\ BadMethod
    /\ ret.use_stemming
    /\ ret.pc = "raised"
    /\ \E i \in 1..Len(ret.input) : ret.input[i] # <<>>

(***************************************************************************)
(* C17.  stem_token of a token that holds any character other than a       *)
(* letter a-z/A-Z, or of the empty token, is exactly the lower-cased       *)
(* token, for every method; stem_token of a token of letters only is the   *)
(* method's algorithm applied to the lower-cased token.                    *)
(***************************************************************************)
\* a-z, A-Z
AsciiLetters == {"a", "s", "A"}

\* at least one character, every character a letter a-z/A-Z
LettersOnly(t) == t # <<>> /\ \A i \in 1..Len(t) : t[i] \in AsciiLetters

\* the stemmer or lemmatizer of `method` on a lower-cased word
Algorithm(method, w) ==
    IF method = "lemmatize" THEN Lemmatize(w) ELSE SuffixStem(w)

C17_OnlyLettersAreStemmed ==
    ret.op = "stem_token"
        => ret.value = IF LettersOnly(ret.token)
                       THEN Algorithm(self.method, Lower(ret.token))
                       ELSE Lower(ret.token)

\* a token with an upper-case letter, a final s and another character came
\* back lower-cased with its s
C17_Witness ==
    /\ ret.op = "stem_token"
    /\ ret.token \in { <<"A", "1", "s">>, <<"A", "-", "s">>, <<"A", "'", "s">> }
    /\ ret.value = Lower(ret.token)

(***************************************************************************)
(* C18.  The store is loaded at most once and never changed afterwards:    *)
(* the step that sets _cache_initialized leaves in _word_cache the         *)
(* distinct lower-cased words of the table; from then on no call of        *)
(* get_dictionary_size, is_in_dictionary, check_tokens, analyze_tokens or  *)
(* close changes _word_cache or reads the table again, whatever is         *)
(* written to the table meanwhile; get_dictionary_size returns the size of *)
(* _word_cache, the same value every time.                                 *)
(***************************************************************************)
SizeReturned == Returned("get_dictionary_size")

LoadedOnce ==
    /\ (~self.cache_initialized /\ self'.cache_initialized)
          => self'.word_cache = Store
    /\ self.cache_initialized
          => (self'.cache_initialized /\ self'.word_cache = self.word_cache)
    /\ SizeReturned' => ret'.value = Cardinality(self'.word_cache)
    /\ (SizeReturned /\ SizeReturned') => ret'.value = ret.value

C18_LoadedOnceNeverMutated == [][LoadedOnce]_vars

\* get_dictionary_size was called twice and the table was written after the
\* first call: the cache is no longer the table's words and has kept its size
C18_Witness ==
    /\ SizeReturned
    /\ ncalls = 2
    /\ ret.before.cache_initialized
    /\ self.word_cache # Store
    /\ Cardinality(self.word_cache) # Cardinality(Store)
    /\ ret.value = Cardinality(self.word_cache)

(***************************************************************************)
(* C19.  As claimed: original casing never influences the lookup.  For     *)
(* every token and every configuration, case_sensitive=True included,      *)
(* is_in_dictionary returns for the token what it returns for the          *)
(* lower-cased token.                                                      *)
(***************************************************************************)
C19_CasingNeverMatters ==
    Returned("is_in_dictionary")
        => LET low == is_in_dictionary(ret.before, entries, Lower(ret.word),
                                       ret.case_sensitive, ret.allow_hyphenated)
           IN  ret.found = low.found /\ ret.match_type = low.match_type

(***************************************************************************)
(* C20.  While a hyphenated token is resolved, every inner call of         *)
(* is_in_dictionary is made with allow_hyphenated=False, so                *)
(* is_valid_hyphenated_word is entered once and never from within itself,  *)
(* and the call ends after a number of store lookups bounded by the number *)
(* of hyphen-delimited components: at most two (whole, dehyphenated) and   *)
(* two per component (itself, its stem).                                   *)
(***************************************************************************)
\* number of events of kind k in a call log
CountKind(log, k) == Cardinality({i \in 1..Len(log) : log[i].kind = k})

\* from position `from` on, log is the log of the inner calls made for w
GuardedAndBounded(log, from, w) ==
    /\ \A i \in from..Len(log) :
          log[i].kind = "is_in_dictionary" => ~log[i].allow_hyphenated
    /\ CountKind(log, "is_valid_hyphenated_word") <= 1
    /\ CountKind(log, "lookup") <= 2 + 2 * Len(SplitComponents(w))
    /\ CountKind(log, "is_in_dictionary") = CountKind(log, "lookup") + (from - 1)

C20_RecursionGuard ==
    /\ (Looked /\ HasHyphen(ret.word)) => GuardedAndBounded(ret.log, 2, ret.word)
    /\ (Analyzed /\ HasHyphen(ret.tokens[1]))
          => GuardedAndBounded(ret.log, 1, ret.tokens[1])
    /\ Resolved => GuardedAndBounded(ret.log, 1, ret.word)

\* a hyphenated token went through is_in_dictionary and the handler made
\* every lookup it can make: the whole, the dehyphenated, each component and
\* each component's stem
C20_Witness ==
    /\ Looked
    /\ HasHyphen(ret.word)
    /\ Len(SplitComponents(ret.word)) = 2
    /\ CountKind(ret.log, "is_valid_hyphenated_word") = 1
    /\ CountKind(ret.log, "lookup") = 6

(***************************************************************************)
(* C21.  As claimed: two workers share one checker without locking.        *)
(* However their calls of is_in_dictionary interleave, the lazy load and   *)
(* the lazy creation of the handler included, no call raises, every        *)
(* membership test is made on the complete store, and every token gets the *)
(* result of a single-threaded run.                                        *)
(***************************************************************************)
\* worker w is past the load: its membership tests are still to come or done
PastLoad(w) == ret.worker[w].pc \in {"line74", "line83", "line85", "done"}

\* what a single-threaded run returns for worker w's token
Alone(w) == is_in_dictionary(Fresh, entries, ret.worker[w].word, FALSE, TRUE)

C21_WorkersShareStore ==
    \A w \in Workers :
        /\ ret.worker[w].pc # "raised"
        /\ PastLoad(w) => self.word_cache = Store
        /\ ret.worker[w].pc = "done"
              => /\ ret.worker[w].found = Alone(w).found
                 /\ ret.worker[w].match_type = Alone(w).match_type

(***************************************************************************)
(* C22.  For any token stream, unique_not_found_list of analyze_tokens     *)
(* holds exactly the lower-cased forms of the tokens classified not-found, *)
(* each once and in sorted order, and unique_not_found is its length.      *)
(***************************************************************************)
\* a new checker of the same configuration classifies t alone as not found
NotFoundAlone(t) ==
    analyze_tokens(Fresh, entries, <<t>>).result.not_found_tokens # <<>>

C22_NotFoundFoldedSorted ==
    Returned("analyze_tokens") =>
        LET l == ret.result.unique_not_found_list
        IN  /\ Range(l) = {Lower(t) : t \in {u \in Range(ret.tokens) : NotFoundAlone(u)}}
            /\ Range(l) = {Lower(t) : t \in Range(ret.result.not_found_tokens)}
            /\ \A i \in 1..Len(l), j \in 1..Len(l) : i < j => StrLess(l[i], l[j])
            /\ ret.result.unique_not_found = Len(l)

\* three tokens were not found, two of them the same but for case, and the
\* list does not begin with the first of them
C22_Witness ==
    /\ Returned("analyze_tokens")
    /\ Len(ret.result.not_found_tokens) = 3
    /\ Len(ret.result.unique_not_found_list) = 2
    /\ ret.result.unique_not_found_list[1] # Lower(ret.tokens[1])

(***************************************************************************)
(* C23.  check_tokens takes tokens that differ only in case for            *)
(* duplicates: its result has one key, the lower-cased form, for every     *)
(* case-insensitively distinct token; each is classified once, at its      *)
(* first occurrence; later duplicates make no lookup and change no         *)
(* counter, so the checker is left as by the stream without them.          *)
(***************************************************************************)
\* tokens[i] is the first of its lower-cased form
IsFirst(tokens, i) == \A j \in 1..(i - 1) : Lower(tokens[j]) # Lower(tokens[i])

RECURSIVE FirstsFrom(_, _)
\* the stream without the later duplicates, from position i on
FirstsFrom(tokens, i) ==
    IF i > Len(tokens) THEN <<>>
    ELSE (IF IsFirst(tokens, i) THEN <<tokens[i]>> ELSE <<>>)
         \o FirstsFrom(tokens, i + 1)

C23_CaseDuplicatesSkipped ==
    Returned("check_tokens") =>
        /\ DOMAIN ret.results = {Lower(t) : t \in Range(ret.tokens)}
        /\ \A k \in DOMAIN ret.results :
              ret.results[k] = is_in_dictionary(Fresh, entries, k, FALSE, TRUE).found
        /\ self = check_tokens(ret.before, entries, FirstsFrom(ret.tokens, 1)).self

\* a stream of three tokens, the same but for case, gave one key
C23_Witness ==
    /\ Returned("check_tokens")
    /\ Len(ret.tokens) = 3
    /\ ret.tokens[1] # ret.tokens[2]
    /\ Cardinality(DOMAIN ret.results) = 1
    /\ Total(self.stem_match_stats) > 0

(***************************************************************************)
(* C24.  As claimed: on every exit of check_tokenized_files, by return or  *)
(* by an exception raised while the store is loaded, a file is analysed or *)
(* the results are saved, the connection of the checker it created has     *)
(* been closed.                                                            *)
(***************************************************************************)
\* the run has ended, by return or by exception
Exited == Run /\ ret.pc \in {"done", "raised"}

C24_ConnectionClosedOnExit ==
    (Exited /\ self # NoChecker) => self.conn = "closed"

(***************************************************************************)
(* C25.  As claimed: the results of a run that returned agree with its     *)
(* input.  There is one per-file result for every input file,              *)
(* summary.total_files is the number of input files, summary.total_tokens  *)
(* is the input's number of tokens and the sum over the files of the       *)
(* found, stem-found, hyphenated-found and not-found counts, and           *)
(* total_found + total_not_found accounts for every token.                 *)
(***************************************************************************)
\* the tokens file f counts in its four variants
CountedIn(f) ==
    f.found_count + f.stem_found_count + f.hyphenated_found_count
        + f.not_found_count

C25_ResultsMatchInput ==
    (Run /\ ret.pc = "done") =>
        /\ Len(ret.results) = Len(ret.input)
        /\ ret.summary.total_files = Len(ret.input)
        /\ ret.summary.total_tokens = InputTotal(ret.input, Len(ret.input))
        /\ ret.summary.total_tokens
              = SumTo([i \in 1..Len(ret.results) |-> CountedIn(ret.results[i])],
                      Len(ret.results))
        /\ ret.summary.total_found + ret.summary.total_not_found
              = ret.summary.total_tokens

(***************************************************************************)
(* C27.  As claimed: the output of a run that returned has every field a   *)
(* downstream script reads without a test.  Each per-file result has       *)
(* total_tokens, found_count, not_found_count, unique_found,               *)
(* unique_not_found and found_percentage; with stemming enabled the        *)
(* summary has total_stem_found, total_combined_found,                     *)
(* combined_found_percentage, stem_contribution and                        *)
(* unique_stem_found_words, also when no token was matched by its stem.    *)
(***************************************************************************)
\* data[...] of export_to_csv
FileFieldsRead ==
    {"total_tokens", "found_count", "not_found_count", "unique_found",
     "unique_not_found", "found_percentage"}

\* results['summary'][...] of check_dictionary_with_stemming
SummaryFieldsRead ==
    {"total_found", "total_stem_found", "total_combined_found",
     "total_not_found", "found_percentage", "combined_found_percentage",
     "stem_contribution", "unique_stem_found_words"}

C27_FieldsPresent ==
    (Run /\ ret.pc = "done") =>
        /\ \A i \in 1..Len(ret.results) : FileFieldsRead \subseteq DOMAIN ret.results[i]
        /\ ret.use_stemming => SummaryFieldsRead \subseteq DOMAIN ret.summary

(***************************************************************************)
(* C26.  As claimed: a checker built with use_stemming=False accepts       *)
(* nothing by a stem.  Every token, hyphenated or not, is classified as by *)
(* the same checker built without a stemmer, and neither 'stem' nor        *)
(* 'hyphenated_stem_components' is returned.                               *)
(***************************************************************************)
StemTypes == {"stem", "hyphenated_stem_components"}

\* the checker's configuration without the stemmer
Stemless == NewChecker(self.use_stemming, None, self.handle_hyphenated)

C26_NoStemmingNoStemMatch ==
    /\ (Looked /\ ~self.use_stemming)
          => /\ ret.match_type \notin StemTypes
             /\ ret.found = is_in_dictionary(Stemless, entries, ret.word,
                                             ret.case_sensitive, TRUE).found
    /\ (Analyzed /\ ~self.use_stemming)
          => /\ AnalyzedType \notin StemTypes
             /\ ret.result.not_found_tokens
                   = analyze_tokens(Stemless, entries, ret.tokens).result.not_found_tokens

(***************************************************************************)
(* C28.  The two entry points agree on acceptance: for every token, store  *)
(* and configuration, check_tokens reports true for the lower-cased token  *)
(* exactly when analyze_tokens puts the token in one of its found lists    *)
(* and not in not_found_tokens.                                            *)
(***************************************************************************)
\* what check_tokens of a new checker of the same configuration reports for t
Checked(t) == check_tokens(Fresh, entries, <<t>>).results[Lower(t)]

C28_EntryPointsAgree ==
    Analyzed =>
        /\ Checked(ret.tokens[1]) = (ret.result.not_found_tokens = <<>>)
        /\ Checked(ret.tokens[1]) = (ret.result.combined_found_count = 1)

\* a hyphenated token with an upper-case letter that is in the store: both
\* accept it, analyze_tokens as 'original', is_in_dictionary through the
\* handler
C28_Witness ==
    /\ Analyzed
    /\ HasHyphen(ret.tokens[1])
    /\ ret.tokens[1] # Lower(ret.tokens[1])
    /\ AnalyzedType = "original"
    /\ Checked(ret.tokens[1])
    /\ is_in_dictionary(Fresh, entries, Lower(ret.tokens[1]), FALSE, TRUE).match_type
          = "hyphenated_whole"

(***************************************************************************)
(* C29.  As claimed: a token with any non-alphabetic character (hyphen,    *)
(* digit, ...) is never classified 'stem', in any configuration            *)
(* is_in_dictionary accepts, and a hyphenated token the hyphen handler     *)
(* rejects ends as not found.                                              *)
(***************************************************************************)
\* t holds a character that is no letter
NonAlphabetic(t) == \E i \in 1..Len(t) : ~IsAlphaCh(t[i])

C29_NonAlphabeticNeverStem ==
    /\ (Looked /\ NonAlphabetic(ret.word)) => ret.match_type # "stem"
    /\ (Analyzed /\ NonAlphabetic(ret.tokens[1])) => AnalyzedType # "stem"
    /\ (Looked /\ HasHyphen(ret.word) /\ self.handle_hyphenated
            /\ ret.match_type \notin {"hyphenated_whole", "hyphenated_dehyphenated",
                                      "hyphenated_components",
                                      "hyphenated_stem_components"})
          => (~ret.found /\ ret.match_type = "none")

(***************************************************************************)
(* C30.  In the result of analyze_tokens the four unique sets              *)
(* (original-found, stem-found, hyphenated-found, not-found), taken        *)
(* case-insensitively, are pairwise disjoint for every token stream:       *)
(* unique_combined_found is unique_found + unique_stem_found +             *)
(* unique_hyphenated_found, and no lower-cased word is reported both as    *)
(* found and as not found.                                                 *)
(***************************************************************************)
\* the lower-cased words of a list of tokens
Folded(tokens) == {Lower(t) : t \in Range(tokens)}

PairwiseDisjoint(A, B, C, D) ==
    /\ A \cap B = {} /\ A \cap C = {} /\ A \cap D = {}
    /\ B \cap C = {} /\ B \cap D = {}
    /\ C \cap D = {}

C30_UniqueSetsDisjoint ==
    Returned("analyze_tokens") =>
        LET r == ret.result
        IN  /\ PairwiseDisjoint(Folded(r.found_tokens), Folded(r.stem_found_tokens),
                                Folded(r.hyphenated_found_tokens),
                                Folded(r.not_found_tokens))
            /\ PairwiseDisjoint(Range(r.unique_found_list),
                                Range(r.unique_stem_found_list),
                                Range(r.unique_hyphenated_found_list),
                                Range(r.unique_not_found_list))
            /\ r.unique_combined_found
                  = r.unique_found + r.unique_stem_found + r.unique_hyphenated_found

\* two hyphenated tokens, the same but for case, were found as one word and
\* a third token as another
C30_Witness ==
    /\ Returned("analyze_tokens")
    /\ Len(ret.result.hyphenated_found_tokens) = 2
    /\ ret.result.unique_hyphenated_found = 1
    /\ ret.result.unique_found = 1
    /\ ret.result.unique_combined_found = 2

=============================================================================
